---------------------------- MODULE Spec2Model ----------------------------
(***************************************************************************)
(* A model of ext_num.py: the ExtNum value type (REAL, COMPLEX, OMEGA,     *)
(* BOTTOM), its constructors, coercion, arithmetic, comparisons, unary     *)
(* functions and JSON serialization.                                       *)
(*                                                                         *)
(* Python's numbers are modelled by what the interpreter does with them:   *)
(*   - a Fraction is an exact rational <<n, d>> in lowest terms, d > 0;    *)
(*   - a float is a rational on a binary grid of FracBits fraction bits    *)
(*     (a scaled-down double): every conversion to float and every float   *)
(*     operation rounds to that grid, half to even;                        *)
(*   - a complex is a pair of such floats;                                 *)
(*   - None is the payload of BOTTOM.                                      *)
(* A payload is a record [t, re, im] whose t names its Python type:        *)
(* "F" Fraction (or int), "D" float, "C" complex, "N" None.                *)
(***************************************************************************)
EXTENDS Integers, Sequences, FiniteSets, TLC

VARIABLES x, y, last, depth

vars == <<x, y, last, depth>>

(* ------------------------------ bounds --------------------------------- *)

\* fraction bits of the modelled float
FracBits == 2
\* how many results may be stored back into an operand register
MaxDepth == 1
\* the largest magnitude of a payload component that is stored back
MaxMag == 1

(* --------------------------- exact rationals --------------------------- *)

Abs(n) == IF n < 0 THEN -n ELSE n

RECURSIVE Gcd(_, _)
Gcd(a, b) == IF b = 0 THEN a ELSE Gcd(b, a % b)

\* a rational in lowest terms with a positive denominator (d # 0)
Norm(n, d) ==
    LET g == Gcd(Abs(n), Abs(d))
        s == IF d < 0 THEN -1 ELSE 1
    IN  <<(s * n) \div g, (s * d) \div g>>

QZero == <<0, 1>>
QOne == <<1, 1>>
QInt(n) == <<n, 1>>
QAdd(a, b) ==
    LET g == Gcd(a[2], b[2])
    IN  Norm(a[1] * (b[2] \div g) + b[1] * (a[2] \div g), (a[2] \div g) * b[2])
QNeg(a) == <<-a[1], a[2]>>
QSub(a, b) == QAdd(a, QNeg(b))
QMul(a, b) ==
    LET g == Gcd(Abs(a[1]), b[2])
        h == Gcd(Abs(b[1]), a[2])
    IN  Norm((a[1] \div g) * (b[1] \div h), (a[2] \div h) * (b[2] \div g))
\* a / b for b # 0
QDiv(a, b) == QMul(a, Norm(b[2], b[1]))
QLt(a, b) == a[1] * b[2] < b[1] * a[2]
QLe(a, b) == a[1] * b[2] <= b[1] * a[2]
QAbs(a) == <<Abs(a[1]), a[2]>>
QIsZero(a) == a[1] = 0

RECURSIVE QPowNat(_, _)
QPowNat(a, n) == IF n = 0 THEN QOne ELSE QMul(a, QPowNat(a, n - 1))

(* ------------------------------- floats -------------------------------- *)

RECURSIVE Pow2(_)
Pow2(n) == IF n = 0 THEN 1 ELSE 2 * Pow2(n - 1)

Grid == Pow2(FracBits)

\* the float nearest to the rational q: round to the grid, ties to even
RoundQ(q) ==
    LET m == q[1] * Grid
        k == m \div q[2]
        r == m - k * q[2]
        up == \/ 2 * r > q[2]
              \/ (2 * r = q[2] /\ k % 2 = 1)
    IN  Norm(IF up THEN k + 1 ELSE k, Grid)

\* math.sqrt of a rational q >= 0, to the grid: the k with k/Grid nearest sqrt(q)
RECURSIVE SqrtUp(_, _)
SqrtUp(q, k) ==
    \* (2k+1)^2 / (2 Grid)^2 > q : k/Grid is within half a grid step of sqrt(q)
    IF (2 * k + 1) * (2 * k + 1) * q[2] > q[1] * 4 * Grid * Grid
    THEN k ELSE SqrtUp(q, k + 1)

FSqrt(q) == Norm(SqrtUp(q, 0), Grid)

(* ------------------------------ payloads ------------------------------- *)

F(q) == [t |-> "F", re |-> q, im |-> QZero]
D(q) == [t |-> "D", re |-> q, im |-> QZero]
C(re, im) == [t |-> "C", re |-> re, im |-> im]
None == [t |-> "N", re |-> QZero, im |-> QZero]

IsRealNum(v) == v.t \in {"F", "D"}

\* v == 0 in Python: numbers compare by value across types; None == 0 is False
NumIsZero(v) == v.t # "N" /\ QIsZero(v.re) /\ QIsZero(v.im)

\* a == b in Python for payloads
NumEq(a, b) ==
    IF a.t = "N" \/ b.t = "N" THEN a.t = b.t
    ELSE a.re = b.re /\ a.im = b.im

\* float(v) for a Fraction or a float
PyFloat(v) == IF v.t = "D" THEN v ELSE D(RoundQ(v.re))

\* Fraction(v) for a Fraction or a float: exact
PyFraction(v) == F(v.re)

\* the type of the result of a binary arithmetic operator (numeric tower)
Join(a, b) ==
    IF a.t = "C" \/ b.t = "C" THEN "C"
    ELSE IF a.t = "D" \/ b.t = "D" THEN "D" ELSE "F"

\* the operand as the operator sees it: converted to the result type
Conv(v, t) ==
    IF t = "F" \/ v.t = "C" THEN v
    ELSE [t |-> t, re |-> RoundQ(v.re), im |-> QZero]

Shape(t, re, im) ==
    IF t = "F" THEN F(re)
    ELSE IF t = "D" THEN D(RoundQ(re))
    ELSE C(RoundQ(re), RoundQ(im))

NumAdd(a, b) ==
    LET t == Join(a, b)  p == Conv(a, t)  q == Conv(b, t)
    IN  Shape(t, QAdd(p.re, q.re), QAdd(p.im, q.im))

NumNeg(a) == [t |-> a.t, re |-> QNeg(a.re), im |-> QNeg(a.im)]

\* sign * v for sign in {+1, -1}
NumSign(sign, v) == IF sign = -1 THEN NumNeg(v) ELSE v

NumMul(a, b) ==
    LET t == Join(a, b)  p == Conv(a, t)  q == Conv(b, t)
    IN  Shape(t, QSub(QMul(p.re, q.re), QMul(p.im, q.im)),
                 QAdd(QMul(p.re, q.im), QMul(p.im, q.re)))

\* the divisor of a / b, as the operator sees it, is zero: ZeroDivisionError
DivisorIsZero(a, b) == NumIsZero(Conv(b, Join(a, b)))

\* a / b when the divisor is not zero
NumDiv(a, b) ==
    LET t == Join(a, b)  p == Conv(a, t)  q == Conv(b, t)
        n == QAdd(QMul(q.re, q.re), QMul(q.im, q.im))
    IN  Shape(t, QDiv(QAdd(QMul(p.re, q.re), QMul(p.im, q.im)), n),
                 QDiv(QSub(QMul(p.im, q.re), QMul(p.re, q.im)), n))

\* abs(v): a Fraction stays a Fraction, a float a float, a complex gives a float
NumAbs(v) ==
    IF v.t = "C"
    THEN D(FSqrt(QAdd(QMul(v.re, v.re), QMul(v.im, v.im))))
    ELSE [t |-> v.t, re |-> QAbs(v.re), im |-> QZero]

\* v ** n for an int n, v # 0 when n < 0: the exact power, rounded once
RECURSIVE ExactPowNat(_, _)
ExactPowNat(v, n) ==
    IF n = 0 THEN [re |-> QOne, im |-> QZero]
    ELSE LET p == ExactPowNat(v, n - 1)
         IN  [re |-> QSub(QMul(v.re, p.re), QMul(v.im, p.im)),
              im |-> QAdd(QMul(v.re, p.im), QMul(v.im, p.re))]

NumPow(v, n) ==
    LET p == ExactPowNat(v, Abs(n))
        m == QAdd(QMul(p.re, p.re), QMul(p.im, p.im))
    IN  IF n >= 0 THEN Shape(v.t, p.re, p.im)
        ELSE Shape(v.t, QDiv(p.re, m), QDiv(QNeg(p.im), m))

(* ------------------- math and cmath, to the grid ----------------------- *)
(* The library functions are computed by short series and rounded to the   *)
(* grid.  They keep what the code depends on: the type of the result, its  *)
(* sign, its zeros (sin 0 = 0, cos 0 = 1, exp > 0, log 1 = 0) and the      *)
(* domain errors, which the callers test before they call.                 *)

PiQ == <<22, 7>>
QHalf == <<1, 2>>

\* q^n / f
Term(q, n, f) == QDiv(QPowNat(q, n), QInt(f))

\* math.sin
FSin(q) == RoundQ(QAdd(QSub(q, Term(q, 3, 6)), Term(q, 5, 120)))

\* math.cos
FCos(q) ==
    RoundQ(QSub(QAdd(QSub(QOne, Term(q, 2, 2)), Term(q, 4, 24)), Term(q, 6, 720)))

ExpSeries(q) ==
    QAdd(QAdd(QAdd(QAdd(QOne, q), Term(q, 2, 2)), Term(q, 3, 6)), Term(q, 4, 24))

\* exp before rounding: positive for every q
ExpQ(q) == IF QLt(q, QZero) THEN QDiv(QOne, ExpSeries(QNeg(q))) ELSE ExpSeries(q)

\* math.exp
FExp(q) == RoundQ(ExpQ(q))

\* math.log for q > 0: 2 atanh((q - 1) / (q + 1))
FLog(q) ==
    LET z == QDiv(QSub(q, QOne), QAdd(q, QOne))
    IN  RoundQ(QMul(QInt(2), QAdd(z, Term(z, 3, 3))))

\* math.pow(b, e) for b >= 0 and e > 0
FPow(b, e) == IF QIsZero(b) THEN QZero ELSE FExp(QMul(e, FLog(b)))

\* cosh and sinh, from the rounded exponentials
FCosh(q) == RoundQ(QMul(QHalf, QAdd(FExp(q), FExp(QNeg(q)))))
FSinh(q) == RoundQ(QMul(QHalf, QSub(FExp(q), FExp(QNeg(q)))))

\* atan(t) for |t| <= 1
AtanSmall(t) == QSub(t, Term(t, 3, 3))

\* the phase of re + im j, (re, im) # (0, 0), in (-pi, pi]
Phase(re, im) ==
    IF QIsZero(im) THEN (IF QLt(re, QZero) THEN PiQ ELSE QZero)
    ELSE LET s == IF QLt(im, QZero) THEN QInt(-1) ELSE QOne
             a == QAbs(re)  b == QAbs(im)
             \* the angle of (|re|, |im|) in [0, pi/2]
             acute == IF QLe(b, a) THEN AtanSmall(QDiv(b, a))
                      ELSE QSub(QMul(PiQ, QHalf), AtanSmall(QDiv(a, b)))
         IN  QMul(s, IF QLt(re, QZero) THEN QSub(PiQ, acute) ELSE acute)

\* the argument of a cmath function as a complex number
AsC(v) == IF v.t = "C" THEN v ELSE C(RoundQ(v.re), QZero)

\* cmath.sin
CSin(v) ==
    LET z == AsC(v)
    IN  C(RoundQ(QMul(FSin(z.re), FCosh(z.im))), RoundQ(QMul(FCos(z.re), FSinh(z.im))))

\* cmath.cos
CCos(v) ==
    LET z == AsC(v)
    IN  C(RoundQ(QMul(FCos(z.re), FCosh(z.im))),
          RoundQ(QNeg(QMul(FSin(z.re), FSinh(z.im)))))

\* cmath.exp
CExp(v) ==
    LET z == AsC(v)
    IN  C(RoundQ(QMul(ExpQ(z.re), FCos(z.im))), RoundQ(QMul(ExpQ(z.re), FSin(z.im))))

\* cmath.log for v # 0
CLog(v) ==
    LET z == AsC(v)
    IN  C(FLog(NumAbs(z).re), RoundQ(Phase(z.re, z.im)))

\* cmath.sqrt: the principal root
CSqrt(v) ==
    LET z == AsC(v)
        m == NumAbs(z).re
        r == FSqrt(QMul(QHalf, QAdd(m, z.re)))
        i == FSqrt(QMul(QHalf, QSub(m, z.re)))
    IN  C(r, IF QLt(z.im, QZero) THEN QNeg(i) ELSE i)

(* ------------------------------ ExtNum --------------------------------- *)

\* ExtNum(kind, val, use_float): the dataclass constructor, which checks nothing
Mk(kind, val, use_float) == [kind |-> kind, val |-> val, use_float |-> use_float]

\* an operand that is not an ExtNum: a plain int, Fraction, float, complex or None
Plain(v) == [kind |-> "PLAIN", val |-> v, use_float |-> FALSE]

\* the outcome of a call: a returned value or a raised exception
NoArg == [kind |-> "NONE"]
Ok(v) == [tag |-> "ok", v |-> v, exc |-> "none"]
Raise(e) == [tag |-> "raise", v |-> NoArg, exc |-> e]

real(a, use_float) ==
    IF ~IsRealNum(a) THEN Raise("TypeError")
    ELSE Ok(Mk("REAL", IF use_float THEN PyFloat(a) ELSE PyFraction(a), use_float))

complex(re, im, use_float) ==
    IF ~IsRealNum(re) \/ ~IsRealNum(im) THEN Raise("TypeError")
    ELSE LET r == IF use_float THEN PyFloat(re) ELSE PyFraction(re)
             i == IF use_float THEN PyFloat(im) ELSE PyFraction(im)
         IN  Ok(Mk("COMPLEX", C(RoundQ(r.re), RoundQ(i.re)), use_float))

omega(a, use_float) ==
    IF a.t = "N" THEN Raise("TypeError")
    ELSE LET a_val == IF use_float /\ IsRealNum(a) THEN PyFloat(a)
                      ELSE IF IsRealNum(a) THEN PyFraction(a)
                      ELSE a
         IN  IF NumIsZero(a_val) THEN Raise("ValueError")
             ELSE Ok(Mk("OMEGA", a_val, use_float))

bottom == Mk("BOTTOM", None, FALSE)

coerce(self, other) ==
    IF other.kind # "PLAIN" THEN Ok(other)
    ELSE IF IsRealNum(other.val) THEN real(other.val, self.use_float)
    ELSE IF other.val.t = "C"
         THEN complex(D(other.val.re), D(other.val.im), self.use_float)
    ELSE Raise("TypeError")

\* v is a Fraction or a float and v < w; the caller has excluded complex operands
NumLt(v, w) == QLt(v.re, w.re)

add_sub(self, o, sign) ==
    LET co == coerce(self, o)
    IN  IF co.tag = "raise" THEN co
        ELSE LET other == co.v
             IN  IF "BOTTOM" \in {self.kind, other.kind} THEN Ok(bottom)
                 ELSE IF self.kind = "REAL" /\ other.kind = "REAL"
                      THEN real(NumAdd(self.val, NumSign(sign, other.val)), self.use_float)
                 ELSE IF self.kind = "COMPLEX" /\ other.kind = "COMPLEX"
                      THEN LET v == NumAdd(self.val, NumSign(sign, other.val))
                           IN  complex(D(v.re), D(v.im), self.use_float)
                 ELSE IF self.kind = "OMEGA" /\ other.kind = "OMEGA"
                      THEN IF NumEq(self.val, other.val) /\ sign = -1
                           THEN real(F(QZero), self.use_float)
                           ELSE IF QLe(NumAbs(other.val).re, NumAbs(self.val).re)
                                THEN omega(self.val, self.use_float)
                                ELSE omega(NumSign(sign, other.val), self.use_float)
                 ELSE IF self.kind = "OMEGA" THEN Ok(self)
                 ELSE IF other.kind = "OMEGA"
                      THEN omega(NumSign(sign, other.val), self.use_float)
                 ELSE Raise("ValueError")

add(self, other) == add_sub(self, other, 1)
sub(self, other) == add_sub(self, other, -1)

\* __radd__ / __rsub__: other is the plain left operand
radd(self, other) ==
    LET co == coerce(self, other)
    IN  IF co.tag = "raise" THEN co ELSE add(co.v, self)

rsub(self, other) ==
    LET co == coerce(self, other)
    IN  IF co.tag = "raise" THEN co ELSE sub(co.v, self)

neg(self) ==
    IF self.kind \in {"REAL", "COMPLEX"}
    THEN Ok(Mk(self.kind, NumNeg(self.val), self.use_float))
    ELSE IF self.kind = "OMEGA" THEN omega(NumNeg(self.val), self.use_float)
    ELSE Ok(bottom)

IsFiniteZero(v) == v.kind \in {"REAL", "COMPLEX"} /\ NumIsZero(v.val)

\* mul with the zero rule tested before the BOTTOM rule
mul_zero_first(self, o) ==
    LET co == coerce(self, o)
    IN  IF co.tag = "raise" THEN co
        ELSE LET other == co.v
             IN  IF IsFiniteZero(self) \/ IsFiniteZero(other)
                 THEN real(F(QZero), self.use_float)
                 ELSE IF "BOTTOM" \in {self.kind, other.kind} THEN Ok(bottom)
                 ELSE IF "OMEGA" \in {self.kind, other.kind}
                      THEN omega(NumMul(self.val, other.val), self.use_float)
                 ELSE Ok(Mk(self.kind, NumMul(self.val, other.val), self.use_float))

mul(self, o) ==
    LET co == coerce(self, o)
    IN  IF co.tag = "raise" THEN co
        ELSE LET other == co.v
             IN  IF "BOTTOM" \in {self.kind, other.kind} THEN Ok(bottom)
                 ELSE IF IsFiniteZero(self) \/ IsFiniteZero(other)
                      THEN real(F(QZero), self.use_float)
                 ELSE IF "OMEGA" \in {self.kind, other.kind}
                      THEN omega(NumMul(self.val, other.val), self.use_float)
                 ELSE Ok(Mk(self.kind, NumMul(self.val, other.val), self.use_float))

\* __rmul__ = __mul__
rmul(self, other) == mul(self, other)

\* truediv without the branch for a finite zero divisor: Python's own division
truediv_unguarded(self, o) ==
    LET co == coerce(self, o)
    IN  IF co.tag = "raise" THEN co
        ELSE LET other == co.v
             IN  IF "BOTTOM" \in {self.kind, other.kind} THEN Ok(bottom)
                 ELSE IF DivisorIsZero(self.val, other.val) THEN Raise("ZeroDivisionError")
                 ELSE IF "OMEGA" \in {self.kind, other.kind}
                      THEN omega(NumDiv(self.val, other.val), self.use_float)
                 ELSE Ok(Mk(self.kind, NumDiv(self.val, other.val), self.use_float))

truediv(self, o) ==
    LET co == coerce(self, o)
    IN  IF co.tag = "raise" THEN co
        ELSE LET other == co.v
             IN  IF "BOTTOM" \in {self.kind, other.kind} THEN Ok(bottom)
                 ELSE IF IsFiniteZero(other)
                      THEN IF self.kind \in {"REAL", "COMPLEX"}
                           THEN IF NumIsZero(self.val) THEN Ok(bottom)
                                ELSE omega(self.val, self.use_float)
                           ELSE omega(self.val, self.use_float)
                 \* self.val / other.val with a zero direction on the right
                 ELSE IF DivisorIsZero(self.val, other.val) THEN Raise("ZeroDivisionError")
                 ELSE IF "OMEGA" \in {self.kind, other.kind}
                      THEN omega(NumDiv(self.val, other.val), self.use_float)
                 ELSE Ok(Mk(self.kind, NumDiv(self.val, other.val), self.use_float))

rtruediv(self, other) ==
    LET co == coerce(self, other)
    IN  IF co.tag = "raise" THEN co ELSE truediv(co.v, self)

\* an exponent: e.t is "int", "float" or "other" (any other type), e.q its value
pow(self, e) ==
    IF self.kind = "REAL" /\ e.t = "float"
    THEN IF self.val.t = "C" THEN Raise("TypeError")
         ELSE LET base == PyFloat(self.val).re
              IN  IF QLt(base, QZero)
                  THEN LET c == CExp(NumMul(D(e.q), CLog(D(base))))
                       IN  complex(D(c.re), D(c.im), TRUE)
                  ELSE IF QIsZero(base) /\ QLt(e.q, QZero) THEN Raise("ValueError")
                  ELSE real(D(FPow(base, e.q)), TRUE)
    ELSE IF e.t = "int"
    THEN IF e.q[1] = 0
         THEN IF NumIsZero(self.val) THEN Ok(bottom)
              ELSE real(F(QOne), self.use_float)
         ELSE IF self.val.t = "N" THEN Raise("TypeError")
         ELSE IF NumIsZero(self.val) /\ e.q[1] < 0 THEN Raise("ZeroDivisionError")
         ELSE IF self.kind = "COMPLEX"
              THEN complex(NumPow(self.val, e.q[1]), F(QZero), self.use_float)
         ELSE IF self.kind = "OMEGA"
              THEN omega(NumPow(self.val, e.q[1]), self.use_float)
         ELSE real(NumPow(self.val, e.q[1]), self.use_float)
    ELSE Raise("TypeError")

(* --------------------- equality, hashing, ordering --------------------- *)

eq(self, o) ==
    LET co == coerce(self, o)
    IN  IF co.tag = "raise" THEN co
        ELSE LET other == co.v
             IN  IF self.kind = "BOTTOM" /\ other.kind = "BOTTOM" THEN Ok(TRUE)
                 ELSE Ok(self.kind = other.kind /\ NumEq(self.val, other.val))

\* hash(v) of a payload: numbers that compare equal hash equally whatever
\* their type, so the hash is a function of the value alone
NumHash(v) == IF v.t = "N" THEN <<"None">> ELSE <<v.re, v.im>>

\* hash((kind, val, use_float)): the tuple hash combines the hashes of the
\* three components, here kept side by side
hash(self) == <<self.kind, NumHash(self.val), self.use_float>>

\* _cmp_key: <<rank, value>>
cmp_key(self) ==
    IF self.kind = "BOTTOM" THEN Raise("ValueError")
    ELSE IF self.kind = "REAL" THEN Ok(<<0, self.val>>)
    ELSE IF self.kind = "OMEGA" THEN Ok(<<1, NumAbs(self.val)>>)
    ELSE Raise("ValueError")

\* k1 < k2 for two keys: the first components that differ decide
KeyLt(k1, k2) ==
    IF k1[1] # k2[1] THEN Ok(k1[1] < k2[1])
    ELSE IF NumEq(k1[2], k2[2]) THEN Ok(FALSE)
    ELSE IF k1[2].t = "C" \/ k2[2].t = "C" THEN Raise("TypeError")
    ELSE Ok(NumLt(k1[2], k2[2]))

lt(self, other) ==
    LET k1 == cmp_key(self)
    IN  IF k1.tag = "raise" THEN k1
        ELSE LET co == coerce(self, other)
             IN  IF co.tag = "raise" THEN co
                 ELSE LET k2 == cmp_key(co.v)
                      IN  IF k2.tag = "raise" THEN k2 ELSE KeyLt(k1.v, k2.v)

le(self, other) ==
    LET e == eq(self, other)
    IN  IF e.tag = "raise" THEN e
        ELSE IF e.v THEN Ok(TRUE) ELSE lt(self, other)

gt(self, other) ==
    LET r == le(self, other)
    IN  IF r.tag = "raise" THEN r ELSE Ok(~r.v)

ge(self, other) ==
    LET r == lt(self, other)
    IN  IF r.tag = "raise" THEN r ELSE Ok(~r.v)

(* --------------------------- unary functions --------------------------- *)

abs(self) ==
    IF self.kind \in {"REAL", "COMPLEX"} THEN real(NumAbs(self.val), self.use_float)
    ELSE IF self.kind = "OMEGA" THEN omega(NumAbs(self.val), self.use_float)
    ELSE Ok(bottom)

sign(self) ==
    IF self.kind = "REAL"
    THEN IF NumIsZero(self.val) THEN real(F(QZero), self.use_float)
         ELSE IF self.val.t = "C" THEN Raise("TypeError")
         ELSE real(F(IF QLt(QZero, self.val.re) THEN QOne ELSE QInt(-1)), self.use_float)
    ELSE IF self.kind = "OMEGA"
    THEN IF self.val.t = "C" THEN Raise("TypeError")
         ELSE real(F(IF QLt(QZero, self.val.re) THEN QOne ELSE QInt(-1)), self.use_float)
    ELSE Ok(bottom)

\* math.log(v) for a Fraction or float v > 0: the argument is converted to float
MathLog(v) ==
    LET a == PyFloat(v).re
    IN  IF QIsZero(a) THEN Raise("ValueError") ELSE Ok(D(FLog(a)))

log(self) ==
    IF self.kind = "REAL"
    THEN IF self.val.t = "C" THEN Raise("TypeError")
         ELSE IF QLe(self.val.re, QZero)
              THEN IF NumIsZero(AsC(self.val)) THEN Raise("ValueError")
                   ELSE complex(CLog(self.val), F(QZero), self.use_float)
         ELSE LET l == MathLog(self.val)
              IN  IF l.tag = "raise" THEN l ELSE real(l.v, self.use_float)
    ELSE IF self.kind = "COMPLEX"
    THEN IF NumIsZero(AsC(self.val)) THEN Raise("ValueError")
         ELSE complex(CLog(self.val), F(QZero), self.use_float)
    ELSE IF self.kind = "OMEGA"
    THEN LET lv == IF self.val.t = "C"
                   THEN IF NumIsZero(self.val) THEN Raise("ValueError")
                        ELSE Ok(CLog(self.val))
                   ELSE MathLog(NumAbs(self.val))
         IN  IF lv.tag = "raise" THEN lv
             ELSE IF ~NumIsZero(NumAbs(lv.v)) THEN omega(lv.v, self.use_float)
             ELSE Ok(bottom)
    ELSE Ok(bottom)

exp(self) ==
    IF self.kind = "REAL"
    THEN IF self.val.t = "C" THEN Raise("TypeError")
         ELSE real(D(FExp(PyFloat(self.val).re)), self.use_float)
    ELSE IF self.kind = "COMPLEX"
    THEN complex(CExp(self.val), F(QZero), self.use_float)
    ELSE IF self.kind = "OMEGA"
    THEN LET ev == IF self.val.t = "C" THEN CExp(self.val)
                   ELSE D(FExp(PyFloat(self.val).re))
         IN  omega(ev, self.use_float)
    ELSE Ok(bottom)

sin(self) ==
    IF self.kind \in {"REAL", "COMPLEX"}
    THEN Ok(Mk(self.kind, CSin(self.val), self.use_float))
    ELSE IF self.kind = "OMEGA"
    THEN LET sv == IF self.val.t = "C" THEN CSin(self.val)
                   ELSE D(FSin(PyFloat(self.val).re))
         IN  omega(sv, self.use_float)
    ELSE Ok(bottom)

cos(self) ==
    IF self.kind \in {"REAL", "COMPLEX"}
    THEN Ok(Mk(self.kind, CCos(self.val), self.use_float))
    ELSE IF self.kind = "OMEGA"
    THEN LET cv == IF self.val.t = "C" THEN CCos(self.val)
                   ELSE D(FCos(PyFloat(self.val).re))
         IN  omega(cv, self.use_float)
    ELSE Ok(bottom)

sqrt(self) ==
    IF self.kind = "REAL"
    THEN IF self.val.t = "C" THEN Raise("TypeError")
         ELSE IF QLt(self.val.re, QZero)
              THEN complex(CSqrt(self.val), F(QZero), self.use_float)
         ELSE real(D(FSqrt(PyFloat(self.val).re)), self.use_float)
    ELSE IF self.kind = "COMPLEX"
    THEN complex(CSqrt(self.val), F(QZero), self.use_float)
    ELSE IF self.kind = "OMEGA"
    THEN LET sv == IF self.val.t = "C" THEN CSqrt(self.val)
                   ELSE D(FSqrt(PyFloat(NumAbs(self.val)).re))
         IN  omega(sv, self.use_float)
    ELSE Ok(bottom)

(* -------------------------- JSON serialization ------------------------- *)
(* A string is modelled by the literal it spells: "n" or "n/d" (the str of *)
(* a Fraction), a decimal literal (the repr of a float: the shortest one   *)
(* that reads back as the same float) or "(a+bj)" (the str of a complex).  *)
(* json.dumps followed by json.loads returns the same dict of strings and  *)
(* booleans, so a record stands for both the dict and its text.            *)

Str(v) ==
    IF v.t = "F" THEN [form |-> "ratio", q |-> v.re, qi |-> QZero]
    ELSE IF v.t = "D" THEN [form |-> "decimal", q |-> v.re, qi |-> QZero]
    ELSE IF v.t = "C" THEN [form |-> "complex", q |-> v.re, qi |-> v.im]
    ELSE [form |-> "None", q |-> QZero, qi |-> QZero]

\* v.real and v.imag
RealPart(v) == IF v.t = "C" THEN D(v.re) ELSE v
ImagPart(v) == IF v.t = "C" THEN D(v.im) ELSE F(QZero)

Absent == [form |-> "absent"]
Pair(r, i) == [form |-> "pair", real |-> r, imag |-> i]

to_json(self) ==
    [kind |-> self.kind, use_float |-> self.use_float,
     val |-> IF self.kind = "COMPLEX"
             THEN Pair(Str(RealPart(self.val)), Str(ImagPart(self.val)))
             ELSE IF self.kind # "BOTTOM" THEN Str(self.val)
             ELSE Absent]

\* Fraction(s) for a string s
ParseFraction(s) ==
    IF s.form \in {"ratio", "decimal"} THEN Ok(F(s.q)) ELSE Raise("ValueError")

\* float(s) for a string s
ParseFloat(s) ==
    IF s.form = "decimal" \/ (s.form = "ratio" /\ s.q[2] = 1) THEN Ok(D(RoundQ(s.q)))
    ELSE Raise("ValueError")

KindNames == {"REAL", "COMPLEX", "OMEGA", "BOTTOM"}

from_json(o) ==
    IF o.kind \notin KindNames THEN Raise("KeyError")
    ELSE IF o.kind = "BOTTOM" THEN Ok(bottom)
    ELSE IF o.val.form = "absent" THEN Raise("KeyError")
    ELSE IF o.kind = "COMPLEX"
         THEN IF o.val.form # "pair" THEN Raise("TypeError")
              ELSE LET r == IF ~o.use_float THEN ParseFraction(o.val.real)
                            ELSE ParseFloat(o.val.real)
                       i == IF ~o.use_float THEN ParseFraction(o.val.imag)
                            ELSE ParseFloat(o.val.imag)
                   IN  IF r.tag = "raise" THEN r
                       ELSE IF i.tag = "raise" THEN i
                       ELSE complex(r.v, i.v, o.use_float)
    ELSE IF o.val.form = "pair" THEN Raise("TypeError")
    ELSE LET v == IF o.use_float THEN ParseFloat(o.val) ELSE ParseFraction(o.val)
         IN  IF v.tag = "raise" THEN v ELSE Ok(Mk(o.kind, v.v, o.use_float))

\* demo_json_roundtrip: r2 = ExtNum.from_json(r.to_json())
json_roundtrip(r) == from_json(to_json(r))

(* ------------------------ convenience functions ------------------------ *)

safe_div(num, den, use_float) ==
    LET n == IF num.kind # "PLAIN" THEN Ok(num) ELSE real(num.val, use_float)
        d == IF den.kind # "PLAIN" THEN Ok(den) ELSE real(den.val, use_float)
    IN  IF n.tag = "raise" THEN n
        ELSE IF d.tag = "raise" THEN d
        ELSE truediv(n.v, d.v)

(* ---------------------------- the inputs ------------------------------- *)

QThird == <<1, 3>>

\* plain numbers handed to the constructors
RealIn == {F(QInt(-1)), F(QZero), F(QThird), F(QOne)}
ComplexIn == {<<F(QZero), F(QZero)>>, <<F(QOne), F(QOne)>>}
OmegaIn == RealIn \cup {C(QZero, QZero), C(QZero, QOne)}

\* right-hand (or reflected left-hand) operands that are not ExtNum
PlainOperands ==
    {Plain(F(QZero)), Plain(D(QHalf)), Plain(C(QZero, QOne)), Plain(None)}

\* exponents: ints, a float, and a Fraction (an unsupported exponent type)
ExpIn ==
    {[t |-> "int", q |-> QInt(-1)], [t |-> "int", q |-> QZero], [t |-> "int", q |-> QInt(2)],
     [t |-> "float", q |-> QHalf], [t |-> "other", q |-> QHalf]}

\* records handed to from_json that to_json did not write
JsonIn ==
    {[kind |-> "OMEGA", use_float |-> FALSE, val |-> Str(F(QZero))],
     [kind |-> "OMEGA", use_float |-> TRUE, val |-> Str(D(QZero))],
     [kind |-> "OMEGA", use_float |-> FALSE, val |-> Str(C(QZero, QOne))],
     [kind |-> "OMEGA", use_float |-> TRUE, val |-> Str(F(QThird))],
     [kind |-> "REAL", use_float |-> FALSE, val |-> Absent],
     [kind |-> "COMPLEX", use_float |-> FALSE, val |-> Str(F(QOne))],
     [kind |-> "INFINITY", use_float |-> FALSE, val |-> Str(F(QOne))]}

\* the outcomes of the constructors on the inputs
Constructed ==
    {real(a, uf) : a \in RealIn, uf \in BOOLEAN}
    \cup {complex(c[1], c[2], uf) : c \in ComplexIn, uf \in BOOLEAN}
    \cup {omega(a, uf) : a \in OmegaIn, uf \in BOOLEAN}
    \cup {Ok(bottom)}

\* the values the constructors build
Built == {o.v : o \in {c \in Constructed : c.tag = "ok"}}

(* --------------------------- the state machine ------------------------- *)
(* x and y hold two ExtNum values.  A run is a chain of calls whose        *)
(* results are kept (each replaces x, at most MaxDepth times), ended by    *)
(* one call that last records: its name, its operands and its outcome.     *)
(* A result that is dropped changes nothing: the functions are pure.       *)

Call(name, l, r, res) == [name |-> name, l |-> l, r |-> r, res |-> res]

Small(q) == QLe(QAbs(q), QInt(MaxMag))

Storable(res) == res.tag = "ok" /\ Small(res.v.val.re) /\ Small(res.v.val.im)

\* a second argument together with the use_float argument of the call
Args(r, uf) == [kind |-> "ARGS", arg |-> r, use_float |-> uf]

NoCall == Call("init", NoArg, NoArg, Ok(bottom))

\* a call whose outcome is recorded
Answers(name, l, r, res) ==
    /\ last = NoCall
    /\ last' = Call(name, l, r, res)
    /\ UNCHANGED <<x, y, depth>>

\* a call that returns an ExtNum: recorded, or kept as the new x
Returns(name, l, r, res) ==
    \/ Answers(name, l, r, res)
    \/ /\ last = NoCall
       /\ depth < MaxDepth
       /\ Storable(res)
       /\ x' = res.v
       /\ depth' = depth + 1
       /\ UNCHANGED <<y, last>>

\* the operand pairs of a binary operator: both orders of the registers, and
\* x with a plain right operand
Pairs == {<<x, y>>, <<y, x>>} \cup {<<x, p>> : p \in PlainOperands}

\* the operand pairs of a comparison
CmpPairs == {<<x, y>>, <<y, x>>, <<x, Plain(F(QZero))>>, <<x, Plain(None)>>}

\* the operand pairs of safe_div: ExtNum or plain numerators, and a plain zero
DivPairs ==
    {<<x, y>>, <<x, Plain(F(QZero))>>}
    \cup {<<p, Plain(F(QZero))>> : p \in PlainOperands \ {Plain(None)}}

Init ==
    /\ x \in Built
    /\ y \in Built
    /\ last = NoCall
    /\ depth = 0

\* the constructors: the values they return are the initial operands
OpReal == \E a \in RealIn \cup {C(QZero, QOne)}, uf \in BOOLEAN :
    depth = 0 /\ Answers("real", Plain(a), NoArg, real(a, uf))

OpComplex == \E c \in ComplexIn, uf \in BOOLEAN :
    depth = 0 /\ Answers("complex", Plain(c[1]), Plain(c[2]), complex(c[1], c[2], uf))

OpOmega == \E a \in OmegaIn, uf \in BOOLEAN :
    depth = 0 /\ Answers("omega", Plain(a), Args(NoArg, uf), omega(a, uf))

OpBottom == depth = 0 /\ Answers("bottom", NoArg, NoArg, Ok(bottom))

OpAdd == \E p \in Pairs : Returns("add", p[1], p[2], add(p[1], p[2]))
OpSub == \E p \in Pairs : Returns("sub", p[1], p[2], sub(p[1], p[2]))
OpMul == \E p \in Pairs : Returns("mul", p[1], p[2], mul(p[1], p[2]))
OpTrueDiv == \E p \in Pairs : Returns("truediv", p[1], p[2], truediv(p[1], p[2]))

\* the reflected operators: a plain left operand p, x on the right
OpRAdd == \E p \in PlainOperands : Returns("radd", p, x, radd(x, p))
OpRSub == \E p \in PlainOperands : Returns("rsub", p, x, rsub(x, p))
OpRMul == \E p \in PlainOperands : Returns("rmul", p, x, rmul(x, p))
OpRTrueDiv == \E p \in PlainOperands : Returns("rtruediv", p, x, rtruediv(x, p))

OpNeg == Returns("neg", x, NoArg, neg(x))
OpPow == \E e \in ExpIn : Returns("pow", x, e, pow(x, e))

OpEq == \E p \in CmpPairs : Answers("eq", p[1], p[2], eq(p[1], p[2]))
OpHash == Answers("hash", x, y, Ok(<<hash(x), hash(y)>>))
OpLt == \E p \in CmpPairs : Answers("lt", p[1], p[2], lt(p[1], p[2]))
OpLe == \E p \in CmpPairs : Answers("le", p[1], p[2], le(p[1], p[2]))
OpGt == \E p \in CmpPairs : Answers("gt", p[1], p[2], gt(p[1], p[2]))
OpGe == \E p \in CmpPairs : Answers("ge", p[1], p[2], ge(p[1], p[2]))

OpAbs == Returns("abs", x, NoArg, abs(x))
OpSign == Returns("sign", x, NoArg, sign(x))
OpLog == Returns("log", x, NoArg, log(x))
OpExp == Returns("exp", x, NoArg, exp(x))
OpSin == Returns("sin", x, NoArg, sin(x))
OpCos == Returns("cos", x, NoArg, cos(x))
OpSqrt == Returns("sqrt", x, NoArg, sqrt(x))

OpToJson == Answers("to_json", x, NoArg, Ok(to_json(x)))
OpFromJson == \E o \in JsonIn : Returns("from_json", o, NoArg, from_json(o))
OpJsonRoundtrip == Returns("json_roundtrip", x, NoArg, json_roundtrip(x))

OpSafeDiv == \E p \in DivPairs, uf \in BOOLEAN :
    Returns("safe_div", p[1], Args(p[2], uf), safe_div(p[1], p[2], uf))

Next ==
    \/ OpReal \/ OpComplex \/ OpOmega \/ OpBottom
    \/ OpAdd \/ OpSub \/ OpMul \/ OpTrueDiv
    \/ OpRAdd \/ OpRSub \/ OpRMul \/ OpRTrueDiv
    \/ OpNeg \/ OpPow
    \/ OpEq \/ OpHash \/ OpLt \/ OpLe \/ OpGt \/ OpGe
    \/ OpAbs \/ OpSign \/ OpLog \/ OpExp \/ OpSin \/ OpCos \/ OpSqrt
    \/ OpToJson \/ OpFromJson \/ OpJsonRoundtrip
    \/ OpSafeDiv

Spec == Init /\ [][Next]_vars

(* ------------------------------ the claims ----------------------------- *)

IsExtNum(v) == v.kind \in KindNames
IsPlainReal(v) == v.kind = "PLAIN" /\ IsRealNum(v.val)
Returned == last.res.tag = "ok"
Raised(e) == last.res.tag = "raise" /\ last.res.exc = e
Answered(b) == last.res.tag = "ok" /\ last.res.v = b

\* C1: for every value v the constructors real, complex, omega and bottom
\* build, in both modes and of all four kinds (an OMEGA with a complex
\* direction included), from_json(to_json(v)) returns and the result == v.
C1_RoundTrip ==
    (last.name = "json_roundtrip" /\ last.l \in Built)
        => (Returned /\ eq(last.res.v, last.l) = Ok(TRUE))

ArithNames == {"add", "sub", "mul", "truediv", "radd", "rsub", "rmul", "rtruediv"}

\* C2: BOTTOM is absorbing for +, -, * and /: with BOTTOM on either side and
\* any ExtNum (REAL, zero included, COMPLEX, OMEGA, BOTTOM) or any plain real
\* number on the other, the operation returns BOTTOM and does not raise.
C2_BottomAbsorbs ==
    (/\ last.name \in ArithNames
     /\ \/ last.l.kind = "BOTTOM" /\ (IsExtNum(last.r) \/ IsPlainReal(last.r))
        \/ last.r.kind = "BOTTOM" /\ (IsExtNum(last.l) \/ IsPlainReal(last.l)))
        => last.res = Ok(bottom)

\* C2, its case: a zero REAL times BOTTOM came back as BOTTOM.
C2_Witness ==
    /\ last.name = "mul" /\ IsFiniteZero(last.l) /\ last.r.kind = "BOTTOM"
    /\ last.res = Ok(bottom)

\* the divisor of the recorded division, and whether it is a finite zero:
\* a REAL or COMPLEX with payload zero, or the plain number 0 that becomes one
Divisor == IF last.name = "safe_div" THEN last.r.arg ELSE last.r
ZeroDivisor ==
    \/ IsFiniteZero(Divisor)
    \/ IsPlainReal(Divisor) /\ NumIsZero(Divisor.val)

\* the dividend of the recorded division as an ExtNum: safe_div wraps a plain
\* real numerator in a REAL of the mode it is given
Dividend ==
    IF last.name = "safe_div" /\ last.l.kind = "PLAIN"
    THEN real(last.l.val, last.r.use_float).v
    ELSE last.l

\* the dividends the claim names: a finite zero, a nonzero finite value n, an
\* OMEGA with direction n; n is nonzero, as the direction of every OMEGA that
\* omega() builds is
NamedDividend ==
    \/ Dividend.kind \in {"REAL", "COMPLEX"}
    \/ Dividend.kind = "OMEGA" /\ ~NumIsZero(Dividend.val)

C4_HashConsistent ==
    (last.name = "hash" /\ eq(last.l, last.r) = Ok(TRUE))
        => last.res.v[1] = last.res.v[2]

OrderNames == {"lt", "le", "gt", "ge"}

\* C5: each of <, <=, > and >= raises ValueError whenever either operand is
\* COMPLEX or BOTTOM, whatever the other operand is, equal operands included.
C5_OrderingRaises ==
    (/\ last.name \in OrderNames
     /\ IsExtNum(last.l)
     /\ IsExtNum(last.r) \/ IsPlainReal(last.r)
     /\ last.l.kind \in {"COMPLEX", "BOTTOM"} \/ last.r.kind \in {"COMPLEX", "BOTTOM"})
        => Raised("ValueError")

\* rank(REAL v) = (0, v), rank(OMEGA d) = (1, |d|), compared lexicographically
Rank(v) == <<IF v.kind = "REAL" THEN 0 ELSE 1,
             IF v.kind = "REAL" THEN v.val.re ELSE NumAbs(v.val).re>>
RankLt(a, b) ==
    \/ Rank(a)[1] < Rank(b)[1]
    \/ Rank(a)[1] = Rank(b)[1] /\ QLt(Rank(a)[2], Rank(b)[2])
RankLe(a, b) == RankLt(a, b) \/ Rank(a) = Rank(b)
Ranked(v) == \/ v.kind = "REAL" /\ IsRealNum(v.val)
             \/ v.kind = "OMEGA"

\* C6: for REAL and OMEGA operands the four ordering operators agree with one
\* rank: a < b iff rank(a) < rank(b), a <= b iff rank(a) <= rank(b), a > b iff
\* rank(a) > rank(b), a >= b iff rank(a) >= rank(b); so two OMEGA of equal
\* magnitude and opposite sign are neither greater nor less than each other.
C6_OrderingByRank ==
    (last.name \in OrderNames /\ Ranked(last.l) /\ Ranked(last.r))
        => /\ last.name = "lt" => Answered(RankLt(last.l, last.r))
           /\ last.name = "le" => Answered(RankLe(last.l, last.r))
           /\ last.name = "gt" => Answered(RankLt(last.r, last.l))
           /\ last.name = "ge" => Answered(RankLe(last.r, last.l))

\* the calls that return an ExtNum
ValueNames ==
    ArithNames \cup {"real", "complex", "omega", "bottom", "neg", "pow", "abs", "sign",
                     "log", "exp", "sin", "cos", "sqrt", "from_json", "json_roundtrip",
                     "safe_div"}

\* C7: no OMEGA with a zero direction is ever returned: omega(0) raises
\* ValueError in both modes, and every OMEGA returned by an arithmetic
\* operation, a unary function or from_json has a nonzero direction.
C7_NoZeroOmega ==
    /\ (last.name = "omega" /\ NumIsZero(last.l.val)) => Raised("ValueError")
    /\ (last.name \in ValueNames /\ Returned /\ last.res.v.kind = "OMEGA")
           => ~NumIsZero(last.res.v.val)

\* C8: for ExtNum x and y, neither BOTTOM, at least one OMEGA, y not a finite
\* zero, x / y returns an OMEGA with direction payload(x) / payload(y) and
\* does not raise, also when x is a finite zero and y is OMEGA.
C8_OmegaQuotient ==
    (/\ last.name = "truediv"
     /\ IsExtNum(last.l) /\ IsExtNum(last.r)
     /\ "BOTTOM" \notin {last.l.kind, last.r.kind}
     /\ "OMEGA" \in {last.l.kind, last.r.kind}
     /\ \A v \in {last.l, last.r} : v.kind = "OMEGA" => ~NumIsZero(v.val)
     /\ ~IsFiniteZero(last.r))
        => /\ Returned
           /\ last.res.v.kind = "OMEGA"
           /\ ~DivisorIsZero(last.l.val, last.r.val)
           /\ NumEq(last.res.v.val, NumDiv(last.l.val, last.r.val))

\* C9: for x of kind REAL, COMPLEX or OMEGA and a nonzero int n, x ** n returns
\* a value of the kind of x whose payload is the payload of x to the power n.
C9_PowKeepsKind ==
    (/\ last.name = "pow"
     /\ last.r.t = "int" /\ last.r.q # QZero
     /\ last.l.kind \in {"REAL", "COMPLEX", "OMEGA"})
        => /\ Returned
           /\ last.res.v.kind = last.l.kind
           /\ NumEq(last.res.v.val, NumPow(last.l.val, last.r.q[1]))

\* a payload whose type agrees with the kind tag and the mode flag
WellTyped(v) ==
    /\ v.kind = "REAL" => v.val.t = (IF v.use_float THEN "D" ELSE "F")
    /\ v.kind = "COMPLEX" => v.val.t = "C"

BuiltFinite == {v \in Built : v.kind \in {"REAL", "COMPLEX"}}

\* C10: negation, multiplication, division, sin and cos of values built by
\* real() and complex(), of any kinds and modes, return values whose payload
\* type agrees with the kind tag and the mode flag: a REAL carries a rational
\* in exact mode and a double in float mode, never a complex; a COMPLEX
\* carries a complex pair.
C10_PayloadTyped ==
    (/\ last.name \in {"neg", "mul", "truediv", "sin", "cos"}
     /\ last.l \in BuiltFinite
     /\ last.r = NoArg \/ last.r \in BuiltFinite
     /\ Returned)
        => WellTyped(last.res.v)

=============================================================================
